---- MODULE Spec2Model ----
(***************************************************************************)
(* Telegram-Archive: the one-shot migration of the legacy SQLite store     *)
(* into the PostgreSQL adapter (src/src/migrate_to_postgres.py), the       *)
(* adapter factory (src/src/db_adapters/factory.py) and the schema model   *)
(* (src/src/db_adapters/models.py).                                        *)
(*                                                                         *)
(* The concrete adapters and the legacy Database class are not part of the *)
(* sources at hand; their operations are modelled from the adapter         *)
(* contract (src/src/db_adapters/adapter.py) and the design document.      *)
(***************************************************************************)
EXTENDS Integers, Sequences, FiniteSets, TLC

(* ------------------------------ bounds -------------------------------- *)
NumChats == 2
MaxMsgId == 1
MaxFaults == 1
MaxRuns == 2

(* -------------------------- program constants -------------------------- *)
\* The page size of _get_messages.
batch_size == 1000

\* Python's None, the absent marker _convert_dict writes for "".
None == "<None>"

\* The table list with chats moved in front of users.
TablesChatsFirst ==
    <<"chats", "users", "messages", "media", "reactions", "sync_status", "metadata">>

\* main, lines 316-324: the tables in migration order.
Tables == <<"users", "chats", "messages", "media", "reactions", "sync_status", "metadata">>

(* ------------------------------ helpers -------------------------------- *)
RECURSIVE SeqOf(_)
\* The rows of a result set in the (fixed) order the cursor yields them.
SeqOf(S) ==
    IF S = {} THEN <<>>
    ELSE LET x == CHOOSE y \in S : TRUE IN <<x>> \o SeqOf(S \ {x})

RECURSIVE SortById(_)
SortById(S) ==
    IF S = {} THEN <<>>
    ELSE LET x == CHOOSE y \in S : \A z \in S : y.id <= z.id
         IN <<x>> \o SortById(S \ {x})

RECURSIVE Sum(_)
Sum(s) == IF s = <<>> THEN 0 ELSE Head(s) + Sum(Tail(s))

Range(s) == {s[i] : i \in DOMAIN s}

IndexOf(t) == CHOOSE i \in DOMAIN Tables : Tables[i] = t

(* ----------------------- rows of the legacy store ---------------------- *)
\* Textual columns of the legacy store hold "" where a value is absent.
ChatRow(c) == [id |-> c, type |-> "private", title |-> IF c = 1 THEN "" ELSE "title"]
MessageRow(m, c) == [id |-> m, chat_id |-> c, text |-> IF m = 1 THEN "" ELSE "text"]
UserRow(u) == [id |-> u, username |-> ""]
MediaRow(c) == [id |-> c, chat_id |-> c, file_name |-> "file"]
ReactionRow(m, c) == [id |-> (c - 1) * MaxMsgId + m, message_id |-> m, chat_id |-> c, emoji |-> "+"]
SyncRow(c, ids) ==
    [chat_id |-> c,
     last_message_id |-> IF ids = {} THEN 0 ELSE CHOOSE m \in ids : \A n \in ids : n <= m,
     message_count |-> Cardinality(ids)]

\* A legacy store: a set of chats and, per chat, the ids of its messages
\* (a chat may have none; two chats may use the same message id).
LegacyStore(chats, msgs) ==
    [chats |-> {ChatRow(c) : c \in chats},
     messages |-> UNION {{MessageRow(m, c) : m \in msgs[c]} : c \in chats},
     users |-> {UserRow(1)},
     media |-> {MediaRow(c) : c \in {d \in chats : msgs[d] # {}}},
     reactions |-> UNION {{ReactionRow(m, c) : m \in msgs[c]} : c \in chats},
     sync_status |-> {SyncRow(c, msgs[c]) : c \in chats},
     metadata |-> {[key |-> "owner_id", value |-> ""]}]

LegacyStores ==
    {LegacyStore(chats, msgs) :
        chats \in SUBSET (1..NumChats), msgs \in [1..NumChats -> SUBSET (1..MaxMsgId)]}

EmptyTarget ==
    [chats |-> {}, messages |-> {}, users |-> {}, media |-> {},
     reactions |-> <<>>, sync_status |-> {}, metadata |-> {}]

(* ------------------ the legacy store (src.database) -------------------- *)
\* Columns holding integers; every other column is textual.
IntColumns == {"id", "chat_id", "message_id", "last_message_id", "message_count"}

MessagesOf(db, chat_id) == {m \in db.messages : m.chat_id = chat_id}

\* Database.get_all_chats(include_empty=False): the chats, without those that
\* have no message unless include_empty is set.
get_all_chats(db, include_empty) ==
    SortById({c \in db.chats : include_empty \/ MessagesOf(db, c.id) # {}})

\* Database.get_messages(chat_id, limit, offset): one page of a chat.
get_messages(db, chat_id, limit, offset) ==
    LET all == SortById(MessagesOf(db, chat_id))
        hi == IF offset + limit < Len(all) THEN offset + limit ELSE Len(all)
    IN  IF offset >= Len(all) THEN <<>> ELSE SubSeq(all, offset + 1, hi)

\* Database.get_message_count(chat_id).
get_message_count(db, chat_id) == Cardinality(MessagesOf(db, chat_id))

\* cursor.execute("SELECT * FROM <table>") followed by fetchall().
SelectAll(db, table) == SeqOf(db[table])

(* ------------ DataMigrator: reading and normalising rows --------------- *)
_convert_dict(row) ==
    [k \in DOMAIN row |-> IF k \notin IntColumns /\ row[k] = "" THEN None ELSE row[k]]

ConvertAll(rows) == [i \in DOMAIN rows |-> _convert_dict(rows[i])]

_get_chats(db) == ConvertAll(get_all_chats(db, TRUE))

RECURSIVE PagesOf(_, _, _)
\* The while-loop of _get_messages for one chat, from the given offset.
PagesOf(db, chat_id, offset) ==
    LET messages == get_messages(db, chat_id, batch_size, offset)
    IN  IF messages = <<>> THEN <<>>
        ELSE ConvertAll(messages) \o
             (IF Len(messages) < batch_size THEN <<>>
              ELSE PagesOf(db, chat_id, offset + batch_size))

RECURSIVE CollectMessages(_, _)
CollectMessages(db, chats) ==
    IF chats = <<>> THEN <<>>
    ELSE PagesOf(db, Head(chats).id, 0) \o CollectMessages(db, Tail(chats))

_get_messages(db) == CollectMessages(db, get_all_chats(db, FALSE))

_get_users(db) == ConvertAll(SelectAll(db, "users"))
_get_media(db) == ConvertAll(SelectAll(db, "media"))
_get_reactions(db) == ConvertAll(SelectAll(db, "reactions"))
_get_sync_status(db) == ConvertAll(SelectAll(db, "sync_status"))

\* Database.get_metadata() is a key -> value mapping; the rows are built
\* from its items, without _convert_dict.
_get_metadata(db) == SeqOf({[key |-> r.key, value |-> r.value] : r \in db.metadata})

\* The read half of migrate_table: the dispatch on the table name.
ReadRows(db, table_name) ==
    CASE table_name = "chats" -> _get_chats(db)
      [] table_name = "messages" -> _get_messages(db)
      [] table_name = "users" -> _get_users(db)
      [] table_name = "media" -> _get_media(db)
      [] table_name = "reactions" -> _get_reactions(db)
      [] table_name = "sync_status" -> _get_sync_status(db)
      [] table_name = "metadata" -> _get_metadata(db)

(* ------------------- the target adapter (contract) --------------------- *)
\* Insert-or-ignore by primary key: a row already stored is left as it is.
InsertIfAbsentById(rows, row) ==
    IF \E r \in rows : r.id = row.id THEN rows ELSE rows \cup {row}

\* Insert-or-update by primary key.
UpsertById(rows, row) == {r \in rows : r.id # row.id} \cup {row}

upsert_chat(pg, row) == [pg EXCEPT !.chats = UpsertById(@, row)]
upsert_user(pg, row) == [pg EXCEPT !.users = UpsertById(@, row)]
upsert_media(pg, row) == [pg EXCEPT !.media = UpsertById(@, row)]

\* Strictly additive: every call appends its rows under fresh synthetic ids.
insert_reactions(pg, rows) ==
    [pg EXCEPT !.reactions = @ \o [i \in DOMAIN rows |->
        [message_id |-> rows[i].message_id, chat_id |-> rows[i].chat_id,
         emoji |-> rows[i].emoji]]]

update_sync_status(pg, chat_id, last_message_id, message_count) ==
    [pg EXCEPT !.sync_status = {r \in @ : r.chat_id # chat_id} \cup
        {[chat_id |-> chat_id, last_message_id |-> last_message_id,
          message_count |-> message_count]}]

set_metadata(pg, key, value) ==
    [pg EXCEPT !.metadata = {r \in @ : r.key # key} \cup {[key |-> key, value |-> value]}]

\* Message.id is the primary key of the messages table (models.py:63): a
\* batch that carries an id already stored for another chat, or carries it
\* for two chats, violates it.
PrimaryKeyViolation(pg, messages) ==
    \/ \E i \in DOMAIN messages : \E r \in pg.messages :
          r.id = messages[i].id /\ r.chat_id # messages[i].chat_id
    \/ \E i, j \in DOMAIN messages :
          messages[i].id = messages[j].id /\ messages[i].chat_id # messages[j].chat_id

\* Batch insert, insert-or-update on the (id, chat_id) key.
insert_messages(pg, messages) ==
    [pg EXCEPT !.messages =
        {r \in @ : \A i \in DOMAIN messages :
            ~(r.id = messages[i].id /\ r.chat_id = messages[i].chat_id)}
        \cup Range(messages)]

\* Aggregate counts across the major entities.
get_stats(pg) ==
    [chats |-> Cardinality(pg.chats), messages |-> Cardinality(pg.messages),
     users |-> Cardinality(pg.users), media |-> Cardinality(pg.media)]

\* The dispatch with the reactions treated as upserted elsewhere: no append.
WriteRowWithoutReactions(pg, table_name, row) ==
    CASE table_name = "chats" -> upsert_chat(pg, row)
      [] table_name = "users" -> upsert_user(pg, row)
      [] table_name = "media" -> upsert_media(pg, row)
      [] table_name = "sync_status" ->
            update_sync_status(pg, row.chat_id, row.last_message_id, row.message_count)
      [] table_name = "metadata" -> set_metadata(pg, row.key, row.value)
      [] OTHER -> pg

\* The per-row write of migrate_table: the dispatch on the table name.
WriteRow(pg, table_name, row) ==
    CASE table_name = "chats" -> upsert_chat(pg, row)
      [] table_name = "messages" -> pg
      [] table_name = "users" -> upsert_user(pg, row)
      [] table_name = "media" -> upsert_media(pg, row)
      [] table_name = "reactions" -> insert_reactions(pg, <<row>>)
      [] table_name = "sync_status" ->
            update_sync_status(pg, row.chat_id, row.last_message_id, row.message_count)
      [] table_name = "metadata" -> set_metadata(pg, row.key, row.value)

(* ---------------------- verify_migration ------------------------------- *)
MaxCount == 2
\* pg_stats.get(key, 0)
StatsGet(stats, key) == IF key \in DOMAIN stats THEN stats[key] ELSE 0

RECURSIVE SumCounts(_, _)
SumCounts(db, chats) ==
    IF chats = <<>> THEN 0
    ELSE get_message_count(db, Head(chats).id) + SumCounts(db, Tail(chats))

\* The counts verify_migration recomputes from the legacy store.
SqliteStats(db) ==
    [chats |-> Len(get_all_chats(db, FALSE)),
     messages |-> SumCounts(db, get_all_chats(db, FALSE))]

\* The keys of sqlite_stats in the order the comparison loop visits them.
StatKeys == <<"chats", "messages">>

RECURSIVE CompareFromStopAtFirst(_, _, _, _)
\* The comparison loop leaving at the first mismatch.
CompareFromStopAtFirst(sqlite_stats, pg_stats, i, acc) ==
    IF i > Len(StatKeys) THEN acc
    ELSE LET key == StatKeys[i]
         IN  IF sqlite_stats[key] # StatsGet(pg_stats, key)
             THEN [success |-> FALSE, mismatched |-> acc.mismatched \cup {key},
                   compared |-> Append(acc.compared, key)]
             ELSE CompareFromStopAtFirst(sqlite_stats, pg_stats, i + 1,
                      [acc EXCEPT !.compared = Append(@, key)])

RECURSIVE CompareFrom(_, _, _, _)
\* The comparison loop, from key number i on: the success flag and the keys
\* reported as mismatching.
CompareFrom(sqlite_stats, pg_stats, i, acc) ==
    IF i > Len(StatKeys) THEN acc
    ELSE LET key == StatKeys[i]
         IN  IF sqlite_stats[key] # StatsGet(pg_stats, key)
             THEN CompareFrom(sqlite_stats, pg_stats, i + 1,
                      [success |-> FALSE, mismatched |-> acc.mismatched \cup {key},
                       compared |-> Append(acc.compared, key)])
             ELSE CompareFrom(sqlite_stats, pg_stats, i + 1,
                      [acc EXCEPT !.compared = Append(@, key)])

verify_migration(sqlite_stats, pg_stats) ==
    CompareFrom(sqlite_stats, pg_stats, 1,
                [success |-> TRUE, mismatched |-> {}, compared |-> <<>>])

(* ------------------- db_adapters/factory.py ---------------------------- *)
\* Strings whose letters matter are sequences of one-letter strings.
UpperLetters == <<"A", "C", "E", "G", "H", "I", "L", "M", "O", "P", "Q", "R", "S", "T", "Y">>
LowerLetters == <<"a", "c", "e", "g", "h", "i", "l", "m", "o", "p", "q", "r", "s", "t", "y">>

LowerChar(c) ==
    IF \E i \in DOMAIN UpperLetters : UpperLetters[i] = c
    THEN LowerLetters[CHOOSE i \in DOMAIN UpperLetters : UpperLetters[i] = c]
    ELSE c

\* str.lower()
Lower(str) == [i \in DOMAIN str |-> LowerChar(str[i])]

S_sqlite == <<"s", "q", "l", "i", "t", "e">>
S_alchemy == <<"-", "a", "l", "c", "h", "e", "m", "y">>
S_sqlite_alchemy == S_sqlite \o S_alchemy
S_postgres_alchemy == <<"p", "o", "s", "t", "g", "r", "e", "s">> \o S_alchemy

\* getattr(config, name, default): a config is a record of the attributes set.
getattr(config, name, default) == IF name \in DOMAIN config THEN config[name] ELSE default

\* A raised ValueError: no adapter is returned and none was constructed.
Raise(message) ==
    [raised |-> TRUE, error |-> "ValueError", message |-> message,
     adapter |-> "none", constructed |-> {}, args |-> <<>>]

\* A returned adapter of the given class, constructed with the given arguments.
Return(class, args) ==
    [raised |-> FALSE, error |-> "none", message |-> <<>>,
     adapter |-> class, constructed |-> {class}, args |-> args]

\* The postgres-alchemy branch, checked late: the adapter (and with it the
\* connection pool) is built before the password is looked at.
PostgresBranchLateCheck(config) ==
    LET password == getattr(config, "postgres_password", "")
    IN  IF password = ""
        THEN [Raise(<<"PostgreSQL password is required when using postgres-alchemy">>)
                EXCEPT !.constructed = {"PostgreSQLAdapter"}]
        ELSE Return("PostgreSQLAdapter", <<password>>)

\* The postgres-alchemy branch of create_database_adapter.
PostgresBranch(config) ==
    LET host == getattr(config, "postgres_host", "localhost")
        port == getattr(config, "postgres_port", 5432)
        database == getattr(config, "postgres_db", "telegram_backup")
        user == getattr(config, "postgres_user", "postgres")
        password == getattr(config, "postgres_password", "")
        pool_size == getattr(config, "postgres_pool_size", 5)
    IN  IF password = ""
        THEN Raise(<<"PostgreSQL password is required when using postgres-alchemy">>)
        ELSE Return("PostgreSQLAdapter", <<host, port, database, user, password, pool_size>>)

\* The discriminator as read, without case folding.
DbTypeNoLower(config) == getattr(config, "db_type", S_sqlite)

\* db_type = getattr(config, "db_type", "sqlite").lower()
DbType(config) == Lower(getattr(config, "db_type", S_sqlite))

create_database_adapter(config) ==
    LET db_type == DbType(config)
    IN  IF db_type = S_sqlite
        THEN Raise(<<"For db_type='">> \o S_sqlite \o
                   <<"', use the original src.database.Database class. ",
                     "Set db_type='sqlite-alchemy' to use the SQLAlchemy SQLite adapter.">>)
        ELSE IF db_type = S_sqlite_alchemy
        THEN Return("SQLiteAdapter", <<config.database_path, config.database_timeout>>)
        ELSE IF db_type = S_postgres_alchemy
        THEN PostgresBranch(config)
        ELSE Raise(<<"Unsupported database type: ">> \o db_type)

\* is_sqlalchemy_adapter(db_type)
is_sqlalchemy_adapter(db_type) == Lower(db_type) \in {S_sqlite_alchemy, S_postgres_alchemy}

\* The message contains the value as a run of consecutive letters.
Names(message, value) ==
    \E i \in 0..Len(message) :
        /\ i + Len(value) <= Len(message)
        /\ \A k \in 1..Len(value) : message[i + k] = value[k]

(* --------------- db_adapters/schema.py and models.py ------------------- *)
\* The namespaces a deployment may configure.
SchemaNames == {"archive", "backup"}

\* The namespace of a table whose Table carries no schema.
DefaultNamespace == "<default>"

\* {'schema': schema} if schema else {}: the schema the Table receives.
SchemaArg(schema) == IF schema # None THEN schema ELSE None

\* class Chat: __table_args__ holds the two indexes and no schema entry.
Chat(schema) == [tablename |-> "chats", schema |-> None]
Message(schema) == [tablename |-> "messages", schema |-> SchemaArg(schema)]
User(schema) == [tablename |-> "users", schema |-> SchemaArg(schema)]
Media(schema) == [tablename |-> "media", schema |-> SchemaArg(schema)]
Reaction(schema) == [tablename |-> "reactions", schema |-> SchemaArg(schema)]
SyncStatus(schema) == [tablename |-> "sync_status", schema |-> SchemaArg(schema)]
Metadata(schema) == [tablename |-> "metadata", schema |-> SchemaArg(schema)]

\* The classes in the order models.py defines them, each body evaluated
\* with the value get_schema_name() returns at that moment.
Models(schema) ==
    <<Chat(schema), Message(schema), User(schema), Media(schema), Reaction(schema),
      SyncStatus(schema), Metadata(schema)>>

TableNames == {"chats", "messages", "users", "media", "reactions", "sync_status", "metadata"}

\* Base.metadata: the schema of each table, by table name.
TableSchemas(schema) ==
    [t \in TableNames |->
        LET m == Models(schema)
        IN  m[CHOOSE i \in DOMAIN m : m[i].tablename = t].schema]

\* A table that does not exist in the database.
Absent == "<absent>"

(* ======================= migrate_to_postgres.main ====================== *)
VARIABLES
    environ,        \* os.environ and the file system: POSTGRES_PASSWORD, whether database_path exists
    config,         \* the Config() object main reads
    sqlite_db,      \* the legacy store (read only)
    pg,             \* the tables of the target
    backup,         \* <database_path>.backup has been written in this run
    migrator,       \* the name migrator is bound in main's locals
    connections,    \* the stores opened and not yet closed
    pc,             \* main's position
    run,            \* number of the run of main
    faults,         \* injected failures so far
    table,          \* index into Tables of the table being migrated
    phase,          \* position inside migrate_table
    sqlite_data,    \* migrate_table: the rows read
    row,            \* migrate_table: index of the next row
    count,          \* migrate_table: rows handled so far
    total_migrated, \* main: sum of the returned counts
    calls,          \* the migrate_table invocations of this run, in order
    returned,       \* what each invocation returned, and the exception it caught
    io,             \* the reads and writes of this run, in order
    verified,       \* what verify_migration reported, once it has run
    exit_status,    \* main's return value
    previous        \* the target as the previous run left it

\* Inputs and results of the stand-alone calls of create_database_adapter
\* and verify_migration.
VARIABLES f_config, f_result, v_sqlite_stats, v_pg_stats, v_result

\* db_adapters.schema and db_adapters.models on their own.
VARIABLES
    schema_name,      \* schema.schema_name, the module global
    set_calls,        \* number of set_schema_name calls so far
    models_loaded,    \* db_adapters.models has been imported
    schema_at_import, \* what get_schema_name() returned while the classes were defined
    table_schema,     \* the schema each Table of Base.metadata carries
    creating,         \* initialize_schema: number of tables handled, 0 before the call
    schema_at_create, \* what get_schema_name() returned while initialize_schema ran
    created           \* the namespace each table exists under in the database

schemaVars ==
    <<schema_name, set_calls, models_loaded, schema_at_import, table_schema, creating,
      schema_at_create, created>>
\* The target adapter called on its own.
VARIABLES
    a_store,    \* the tables of the store behind the adapter
    a_before,   \* the store before the latest call
    a_last,     \* the latest call: operation, arguments, outcome
    a_synced,   \* per chat, the last_message_id of its latest update_sync_status call
    a_upserted, \* the ids upsert_chat has been called with
    a_calls     \* number of calls so far

adapterVars == <<a_store, a_before, a_last, a_synced, a_upserted, a_calls>>

\* DataMigrator._get_messages called on its own.
VARIABLES
    p_count,    \* per chat of the legacy store, the number of its messages
    p_chats,    \* the chats get_all_chats() returned
    p_chat,     \* index into p_chats of the chat being read
    p_offset,   \* offset of the next page
    p_reads,    \* the get_messages calls so far: chat, limit, offset, rows returned
    p_all,      \* all_messages, as runs of consecutive rows of a chat
    p_pc        \* position in _get_messages

pageVars == <<p_count, p_chats, p_chat, p_offset, p_reads, p_all, p_pc>>

otherVars == <<schemaVars, adapterVars, pageVars>>

mainVars ==
    <<environ, config, sqlite_db, pg, backup, migrator, connections, pc, run, faults,
      table, phase, sqlite_data, row, count, total_migrated, calls, returned, io,
      verified, exit_status, previous>>
callVars == <<f_config, f_result, v_sqlite_stats, v_pg_stats, v_result, otherVars>>
vars == <<mainVars, callVars>>

\* verify_migration has not returned.
NotRun == <<>>
\* create_database_adapter has not been called.
NoCall == <<>>

\* A Config() without and with the postgres_password attribute.
BaseConfig == [database_path |-> "telegram.db", database_timeout |-> 30]
ConfigWithPassword ==
    [database_path |-> "telegram.db", database_timeout |-> 30, postgres_password |-> "secret"]

\* The state at the entry of a run of main.
AtEntry ==
    /\ backup = FALSE /\ migrator = FALSE /\ connections = {}
    /\ table = 1 /\ phase = "idle" /\ sqlite_data = <<>> /\ row = 1 /\ count = 0
    /\ total_migrated = 0 /\ calls = <<>> /\ returned = <<>> /\ io = <<>>
    /\ verified = NotRun /\ exit_status = -1

\* db_adapters.models not imported, no namespace set, nothing created.
SchemaIdle ==
    /\ schema_name = None /\ set_calls = 0
    /\ models_loaded = FALSE /\ schema_at_import = None
    /\ table_schema = [t \in TableNames |-> None]
    /\ creating = 0 /\ schema_at_create = None
    /\ created = [t \in TableNames |-> Absent]

\* No adapter call made.
NoAdapterCall ==
    [op |-> "none", chat_id |-> 0, rows |-> <<>>, fault |-> 0, raised |-> FALSE,
     result |-> FALSE, again |-> FALSE, first_raised |-> FALSE]

AdapterIdle ==
    /\ a_store = EmptyTarget /\ a_before = EmptyTarget
    /\ a_last = NoAdapterCall
    /\ a_synced = <<>> /\ a_upserted = {} /\ a_calls = 0

PagesIdle ==
    /\ p_count = <<>> /\ p_chats = <<>> /\ p_chat = 1 /\ p_offset = 0
    /\ p_reads = <<>> /\ p_all = <<>> /\ p_pc = "idle"

OthersIdle == SchemaIdle /\ AdapterIdle /\ PagesIdle

CallsIdle ==
    /\ f_config = BaseConfig /\ f_result = NoCall
    /\ v_sqlite_stats = [chats |-> 0, messages |-> 0] /\ v_pg_stats = <<>>
    /\ v_result = NotRun
    /\ OthersIdle

Init ==
    /\ environ \in [POSTGRES_PASSWORD : {"", "secret"}, path_exists : BOOLEAN]
    /\ config \in {BaseConfig, ConfigWithPassword}
    /\ sqlite_db \in LegacyStores
    /\ pg = EmptyTarget
    /\ pc = "start" /\ run = 1 /\ faults = 0
    /\ previous = EmptyTarget
    /\ AtEntry
    /\ CallsIdle

\* main going on without looking at POSTGRES_PASSWORD.
CredentialUnchecked ==
    /\ pc = "start"
    /\ pc' = "path"
    /\ UNCHANGED <<environ, config, sqlite_db, pg, backup, migrator, connections, run,
                   faults, table, phase, sqlite_data, row, count, total_migrated, calls,
                   returned, io, verified, exit_status, previous, callVars>>

\* main, lines 284-287: the credential check.
CheckCredential ==
    /\ pc = "start"
    /\ IF environ.POSTGRES_PASSWORD = ""
       THEN pc' = "done" /\ exit_status' = 1
       ELSE pc' = "path" /\ UNCHANGED exit_status
    /\ UNCHANGED <<environ, config, sqlite_db, pg, backup, migrator, connections, run,
                   faults, table, phase, sqlite_data, row, count, total_migrated, calls,
                   returned, io, verified, previous, callVars>>

\* main, lines 297-300: the source store must exist.
CheckDatabasePath ==
    /\ pc = "path"
    /\ IF ~environ.path_exists
       THEN pc' = "done" /\ exit_status' = 1
       ELSE pc' = "backup" /\ UNCHANGED exit_status
    /\ UNCHANGED <<environ, config, sqlite_db, pg, backup, migrator, connections, run,
                   faults, table, phase, sqlite_data, row, count, total_migrated, calls,
                   returned, io, verified, previous, callVars>>

\* The copy left out: main goes on to the migration without it.
BackupSkipped ==
    /\ pc = "backup"
    /\ pc' = "construct"
    /\ UNCHANGED <<environ, config, sqlite_db, pg, backup, migrator, connections, run,
                   faults, table, phase, sqlite_data, row, count, total_migrated, calls,
                   returned, io, verified, exit_status, previous, callVars>>

\* main, lines 305-309: shutil.copy2 to <database_path>.backup.
Backup ==
    /\ pc = "backup"
    /\ backup' = TRUE
    /\ pc' = "construct"
    /\ UNCHANGED <<environ, config, sqlite_db, pg, migrator, connections, run,
                   faults, table, phase, sqlite_data, row, count, total_migrated, calls,
                   returned, io, verified, exit_status, previous, callVars>>

\* main, lines 289-295, and DataMigrator.__init__, lines 48-55.
MigratorConfig ==
    LET pg_config ==
            [host |-> getattr(config, "postgres_host", "localhost"),
             port |-> getattr(config, "postgres_port", 5432),
             database |-> getattr(config, "postgres_db", "telegram_backup"),
             user |-> getattr(config, "postgres_user", "postgres"),
             password |-> getattr(config, "postgres_password", "")]
    IN  [database_path |-> config.database_path,
         database_timeout |-> config.database_timeout,
         db_type |-> S_postgres_alchemy,
         postgres_host |-> pg_config.host,
         postgres_port |-> pg_config.port,
         postgres_db |-> pg_config.database,
         postgres_user |-> pg_config.user,
         postgres_password |-> pg_config.password]

\* main line 313, DataMigrator.__init__ running to its end.
ConstructMigrator ==
    /\ pc = "construct"
    /\ ~create_database_adapter(MigratorConfig).raised
    /\ connections' = connections \cup {"sqlite_db", "pg_adapter"}
    /\ migrator' = TRUE
    /\ pc' = "tables" /\ table' = 1 /\ phase' = "read"
    /\ UNCHANGED <<environ, config, sqlite_db, pg, backup, run, faults, sqlite_data, row,
                   count, total_migrated, calls, returned, io, verified, exit_status,
                   previous, callVars>>

\* DataMigrator.__init__ leaving by the factory's ValueError (line 57): the
\* legacy store is open, migrator is never bound; main lines 345-349.
ConstructFactoryError ==
    /\ pc = "construct"
    /\ create_database_adapter(MigratorConfig).raised
    /\ connections' = connections \cup {"sqlite_db"}
    /\ exit_status' = 1
    /\ pc' = "finally"
    /\ UNCHANGED <<environ, config, sqlite_db, pg, backup, migrator, run, faults, table,
                   phase, sqlite_data, row, count, total_migrated, calls, returned, io,
                   verified, previous, callVars>>

\* DataMigrator.__init__ leaving by an exception of initialize_schema
\* (line 58): both stores are open, migrator is never bound.
ConstructSchemaError ==
    /\ pc = "construct"
    /\ ~create_database_adapter(MigratorConfig).raised
    /\ faults < MaxFaults
    /\ faults' = faults + 1
    /\ connections' = connections \cup {"sqlite_db", "pg_adapter"}
    /\ exit_status' = 1
    /\ pc' = "finally"
    /\ UNCHANGED <<environ, config, sqlite_db, pg, backup, migrator, run, table,
                   phase, sqlite_data, row, count, total_migrated, calls, returned, io,
                   verified, previous, callVars>>

(* ----------------------- DataMigrator.migrate_table -------------------- *)
TableName == Tables[table]

\* main's loop over the tables, lines 327-329, and the step to line 332.
NextTable ==
    IF table < Len(Tables)
    THEN table' = table + 1 /\ phase' = "read" /\ pc' = "tables"
    ELSE table' = table /\ phase' = "idle" /\ pc' = "verify"

\* migrate_table returns value; exception names what it caught, if anything.
ReturnFromTable(value, exception) ==
    /\ returned' = Append(returned, [table |-> TableName, value |-> value,
                                      exception |-> exception])
    /\ total_migrated' = total_migrated + value
    /\ sqlite_data' = <<>> /\ row' = 1 /\ count' = 0
    /\ NextTable

\* migrate_table, lines 73-87: the table is read from the legacy store.
ReadTable ==
    /\ pc = "tables" /\ phase = "read"
    /\ calls' = Append(calls, TableName)
    /\ sqlite_data' = ReadRows(sqlite_db, TableName)
    /\ io' = Append(io, <<TableName, "read">>)
    /\ phase' = "write" /\ row' = 1 /\ count' = 0
    /\ UNCHANGED <<environ, config, sqlite_db, pg, backup, migrator, connections, pc, run,
                   faults, table, total_migrated, returned, verified, exit_status,
                   previous, callVars>>

\* The exception of a failing read leaves migrate_table and reaches main's
\* handler, lines 345-349.
ReadTableRaises ==
    /\ pc = "tables" /\ phase = "read"
    /\ faults < MaxFaults
    /\ faults' = faults + 1
    /\ calls' = Append(calls, TableName)
    /\ io' = Append(io, <<TableName, "read">>)
    /\ exit_status' = 1
    /\ pc' = "finally" /\ phase' = "idle"
    /\ UNCHANGED <<environ, config, sqlite_db, pg, backup, migrator, connections, run,
                   table, sqlite_data, row, count, total_migrated, returned, verified,
                   previous, callVars>>

\* migrate_table, lines 91-93: the read raises, the handler returns 0.
ReadTableFails ==
    /\ pc = "tables" /\ phase = "read"
    /\ faults < MaxFaults
    /\ faults' = faults + 1
    /\ calls' = Append(calls, TableName)
    /\ io' = Append(io, <<TableName, "read">>)
    /\ ReturnFromTable(0, "read")
    /\ UNCHANGED <<environ, config, sqlite_db, pg, backup, migrator, connections, run,
                   verified, exit_status, previous, callVars>>

\* migrate_table, lines 98-120: one turn of the loop over the rows.
WriteTableRow ==
    /\ pc = "tables" /\ phase = "write"
    /\ row <= Len(sqlite_data)
    /\ pg' = WriteRow(pg, TableName, sqlite_data[row])
    /\ io' = IF TableName = "messages" THEN io ELSE Append(io, <<TableName, "write">>)
    /\ count' = count + 1
    /\ row' = row + 1
    /\ UNCHANGED <<environ, config, sqlite_db, backup, migrator, connections, pc, run,
                   faults, table, phase, sqlite_data, total_migrated, calls, returned,
                   verified, exit_status, previous, callVars>>

\* migrate_table, lines 129-131: the adapter call of a row raises, the
\* handler returns 0; rows written before stay written.
WriteTableRowFails ==
    /\ pc = "tables" /\ phase = "write"
    /\ row <= Len(sqlite_data)
    /\ TableName # "messages"
    /\ faults < MaxFaults
    /\ faults' = faults + 1
    /\ ReturnFromTable(0, "write")
    /\ UNCHANGED <<environ, config, sqlite_db, pg, backup, migrator, connections, run,
                   calls, io, verified, exit_status, previous, callVars>>

\* migrate_table, lines 122-127: after the loop, the batch insert of the
\* messages table, and the return of the count.
FinishTable ==
    /\ pc = "tables" /\ phase = "write"
    /\ row > Len(sqlite_data)
    /\ IF TableName = "messages" /\ sqlite_data # <<>>
       THEN IF PrimaryKeyViolation(pg, sqlite_data)
            THEN /\ UNCHANGED <<pg, io>>
                 /\ ReturnFromTable(0, "integrity")
            ELSE /\ pg' = insert_messages(pg, sqlite_data)
                 /\ io' = Append(io, <<TableName, "write">>)
                 /\ ReturnFromTable(count, "none")
       ELSE /\ UNCHANGED <<pg, io>>
            /\ ReturnFromTable(count, "none")
    /\ UNCHANGED <<environ, config, sqlite_db, backup, migrator, connections, run,
                   faults, calls, verified, exit_status, previous, callVars>>

\* migrate_table, lines 124 and 129-131: insert_messages raises as a whole.
InsertMessagesFails ==
    /\ pc = "tables" /\ phase = "write"
    /\ row > Len(sqlite_data)
    /\ TableName = "messages" /\ sqlite_data # <<>>
    /\ faults < MaxFaults
    /\ faults' = faults + 1
    /\ ReturnFromTable(0, "write")
    /\ UNCHANGED <<environ, config, sqlite_db, pg, backup, migrator, connections, run,
                   calls, io, verified, exit_status, previous, callVars>>

(* --------------------- main: verification and exit --------------------- *)
\* main returning 0 whatever the verification said.
ExitStatusIgnoringVerification(success) == 0

\* main, lines 332-343.
ExitStatus(success) == IF success THEN 0 ELSE 1

VerifyMigration ==
    /\ pc = "verify"
    /\ LET result == verify_migration(SqliteStats(sqlite_db), get_stats(pg))
       IN  /\ verified' = <<result>>
           /\ exit_status' = ExitStatus(result.success)
    /\ pc' = "finally"
    /\ UNCHANGED <<environ, config, sqlite_db, pg, backup, migrator, connections, run,
                   faults, table, phase, sqlite_data, row, count, total_migrated, calls,
                   returned, io, previous, callVars>>

\* verify_migration raises (a read of either store fails); main, lines 345-349.
VerifyRaises ==
    /\ pc = "verify"
    /\ faults < MaxFaults
    /\ faults' = faults + 1
    /\ exit_status' = 1
    /\ pc' = "finally"
    /\ UNCHANGED <<environ, config, sqlite_db, pg, backup, migrator, connections, run,
                   table, phase, sqlite_data, row, count, total_migrated, calls,
                   returned, io, verified, previous, callVars>>

\* main, lines 351-355.
Finally ==
    /\ pc = "finally"
    /\ connections' = IF migrator THEN connections \ {"pg_adapter", "sqlite_db"}
                      ELSE connections
    /\ pc' = "done"
    /\ UNCHANGED <<environ, config, sqlite_db, pg, backup, migrator, run,
                   faults, table, phase, sqlite_data, row, count, total_migrated, calls,
                   returned, io, verified, exit_status, previous, callVars>>

\* The operator runs the migration again, on the same stores.
Rerun ==
    /\ pc = "done"
    /\ run < MaxRuns
    /\ run' = run + 1
    /\ previous' = pg
    /\ pc' = "start"
    /\ backup' = FALSE /\ migrator' = FALSE /\ connections' = {}
    /\ table' = 1 /\ phase' = "idle" /\ sqlite_data' = <<>> /\ row' = 1 /\ count' = 0
    /\ total_migrated' = 0 /\ calls' = <<>> /\ returned' = <<>> /\ io' = <<>>
    /\ verified' = NotRun /\ exit_status' = -1
    /\ UNCHANGED <<environ, config, sqlite_db, pg, faults, callVars>>

Next ==
    \/ CheckCredential
    \/ CheckDatabasePath
    \/ Backup
    \/ ConstructMigrator
    \/ ConstructFactoryError
    \/ ConstructSchemaError
    \/ ReadTable
    \/ ReadTableFails
    \/ WriteTableRow
    \/ WriteTableRowFails
    \/ FinishTable
    \/ InsertMessagesFails
    \/ VerifyMigration
    \/ VerifyRaises
    \/ Finally

\* One run of main, with failures of the stores.
Spec == Init /\ [][Next]_vars

\* Runs of main one after the other on the same stores, none of them
\* disturbed by a failure of a store.
NextRerun ==
    \/ CheckCredential
    \/ CheckDatabasePath
    \/ Backup
    \/ ConstructMigrator
    \/ ConstructFactoryError
    \/ ReadTable
    \/ WriteTableRow
    \/ FinishTable
    \/ VerifyMigration
    \/ Finally
    \/ Rerun

SpecRerun == Init /\ [][NextRerun]_vars

(* ============================== claims ================================= *)
TransferDone == Len(returned) = 7

WritesOf(t) == Cardinality({k \in DOMAIN io : io[k] = <<t, "write">>})

\* The adapter calls a complete migration of table t makes.
ExpectedWrites(t) ==
    LET rows == ReadRows(sqlite_db, t)
    IN  IF t = "messages" THEN (IF rows = <<>> THEN 0 ELSE 1) ELSE Len(rows)

TableException == \E i \in DOMAIN returned : returned[i].exception # "none"

\* C1: in a run that reaches the transfer, migrate_table is invoked once per
\* table in the order users, chats, messages, media, reactions, sync_status,
\* metadata, one table at a time (no read of a table follows a write of it
\* or any access to a later table), and verification runs only after the
\* seventh table has returned.
C1_TableOrder ==
    LET order == <<"users", "chats", "messages", "media", "reactions",
                   "sync_status", "metadata">>
        pos(t) == CHOOSE i \in 1..7 : order[i] = t
    IN  /\ Len(calls) <= 7
        /\ \A i \in DOMAIN calls : calls[i] = order[i]
        /\ Len(returned) <= Len(calls) /\ Len(calls) <= Len(returned) + 1
        /\ \A i \in DOMAIN returned : returned[i].table = order[i]
        /\ \A i, j \in DOMAIN io :
              i < j => /\ pos(io[i][1]) <= pos(io[j][1])
                       /\ (io[i][1] = io[j][1] /\ io[i][2] = "write" => io[j][2] = "write")
        /\ (pc = "verify" \/ verified # NotRun) => (calls = order /\ Len(returned) = 7)

C1_Witness ==
    /\ pc = "done" /\ verified # NotRun /\ calls = Tables
    /\ \A t \in {"users", "chats", "messages", "media"} : WritesOf(t) > 0

\* C2: an exception raised while a table is read or written is caught in
\* migrate_table, which returns 0 for that table; the run still reaches
\* every later table, reads it and writes all of its rows to the target
\* (unless that table fails itself).
C2_FailureIsolated ==
    /\ \A i \in DOMAIN returned : returned[i].exception # "none" => returned[i].value = 0
    /\ (calls # <<>> /\ pc \in {"verify", "finally", "done"}) =>
          /\ calls = Tables /\ TransferDone
          /\ \A j \in DOMAIN returned :
                /\ <<Tables[j], "read">> \in Range(io)
                /\ returned[j].exception = "none" =>
                      /\ returned[j].value = Len(ReadRows(sqlite_db, Tables[j]))
                      /\ WritesOf(Tables[j]) = ExpectedWrites(Tables[j])

C2_Witness ==
    /\ pc = "done"
    /\ \E i, j \in DOMAIN returned :
          /\ i < j
          /\ returned[i].exception \in {"read", "write"}
          /\ returned[j].exception = "none" /\ returned[j].value > 0
          /\ WritesOf(Tables[j]) > 0

\* C3 (as claimed): when all seven tables are migrated without any error
\* into a fresh empty target, get_stats reports the legacy store's total
\* chat count and total message count, and verify_migration succeeds.
C3_CleanMigrationVerifies ==
    (run = 1 /\ verified # NotRun /\ ~TableException) =>
        /\ get_stats(pg).chats = Cardinality(sqlite_db.chats)
        /\ get_stats(pg).messages = Cardinality(sqlite_db.messages)
        /\ verified[1].success

MissingCredential == environ.POSTGRES_PASSWORD = ""
MissingStore == ~environ.path_exists
VerificationMismatch == verified # NotRun /\ verified[1].mismatched # {}

\* C5 (as claimed): main returns 1 whenever the credential is missing, the
\* source store file is missing, a table raised while being read or written,
\* or verification found a mismatch; it returns 0 only when none occurred.
C5_AsClaimed ==
    pc = "done" =>
        /\ (MissingCredential \/ MissingStore \/ TableException \/ VerificationMismatch)
              => exit_status = 1
        /\ exit_status = 0 =>
              ~(MissingCredential \/ MissingStore \/ TableException \/ VerificationMismatch)

\* C5 (amended): main returns 1 whenever the credential is missing, the
\* source store file is missing, or verification found a count mismatch; it
\* returns 0 only when none of these occurred.
C5_ExitStatus ==
    pc = "done" =>
        /\ exit_status \in {0, 1}
        /\ (MissingCredential \/ MissingStore \/ VerificationMismatch) => exit_status = 1
        /\ exit_status = 0 => ~(MissingCredential \/ MissingStore \/ VerificationMismatch)

C5_Witness ==
    /\ pc = "done" /\ exit_status = 0 /\ TableException

C7_BackupFirst ==
    (migrator \/ connections # {} \/ calls # <<>> \/ io # <<>> \/ pc \in {"tables", "verify"}
        \/ (run = 1 /\ pg # EmptyTarget)) => backup

C7_Witness == backup /\ migrator /\ pg.chats # {} /\ pc = "tables"

C19_AllRowsNormalized ==
    /\ \A t \in DOMAIN pg :
          \A r \in (IF t = "reactions" THEN Range(pg[t]) ELSE pg[t]) :
              \A k \in DOMAIN r \ IntColumns : r[k] # ""
    /\ \A i \in DOMAIN returned :
          (returned[i].exception = "none" /\ returned[i].table # "reactions") =>
              pg[returned[i].table] = {_convert_dict(r) : r \in sqlite_db[returned[i].table]}

\* C23 (as claimed): when main has returned, every store opened during the
\* run, the legacy store and the target adapter, has been closed, whichever
\* way the run ended.
C23_StoresClosedAtReturn == pc = "done" => connections = {}

(* ============== migrate_table called table by table ==================== *)
\* Names migrate_table has no branch for; the comparisons of lines 74-86
\* are exact, so a name in another case is unknown too.
UnknownTables == {"unknown", "Chats"}

\* A migrator just constructed (lines 45-60) on an empty target: both stores
\* open, nothing read or written yet.
InitMigrateTable ==
    /\ environ = [POSTGRES_PASSWORD |-> "secret", path_exists |-> TRUE]
    /\ config = ConfigWithPassword
    /\ sqlite_db \in LegacyStores
    /\ pg = EmptyTarget /\ previous = EmptyTarget
    /\ run = 1 /\ faults = 0
    /\ backup = TRUE /\ migrator = TRUE /\ connections = {"sqlite_db", "pg_adapter"}
    /\ pc = "tables" /\ table = 1 /\ phase = "read"
    /\ sqlite_data = <<>> /\ row = 1 /\ count = 0
    /\ total_migrated = 0 /\ calls = <<>> /\ returned = <<>> /\ io = <<>>
    /\ verified = NotRun /\ exit_status = -1
    /\ CallsIdle

\* migrate_table, lines 73-90, with a name none of the branches matches:
\* the else branch logs and returns 0 before any store is touched.
MigrateUnknownTable ==
    /\ pc = "tables" /\ phase = "read"
    /\ \A i \in DOMAIN calls : calls[i] \notin UnknownTables
    /\ \E table_name \in UnknownTables :
          /\ calls' = Append(calls, table_name)
          /\ returned' = Append(returned, [table |-> table_name, value |-> 0,
                                            exception |-> "none"])
    /\ UNCHANGED <<environ, config, sqlite_db, pg, backup, migrator, connections, pc, run,
                   faults, table, phase, sqlite_data, row, count, total_migrated, io,
                   verified, exit_status, previous, callVars>>

\* The calls a user of DataMigrator can make: the seven tables in main's
\* order, each call reading, writing row by row and returning, with
\* failures of the stores, and a call with an unknown name in between.
NextMigrateTable ==
    \/ ReadTable
    \/ ReadTableFails
    \/ WriteTableRow
    \/ WriteTableRowFails
    \/ FinishTable
    \/ InsertMessagesFails
    \/ MigrateUnknownTable

SpecMigrateTable == InitMigrateTable /\ [][NextMigrateTable]_vars

\* The rows the target holds in table t.
RowsIn(target, t) == IF t = "reactions" THEN Len(target[t]) ELSE Cardinality(target[t])

\* The reads and writes made for table t.
TouchesOf(t) == {k \in DOMAIN io : io[k][1] = t}

\* C22 (as claimed): the number migrate_table returned for a table equals
\* the number of rows of that table the call wrote to the target (the target
\* was empty before), so a call that returned 0 left no row behind; a call
\* with an unknown name returned 0 and neither read nor wrote.
C22_ReturnsRowsWritten ==
    \A i \in DOMAIN returned :
        IF returned[i].table \in UnknownTables
        THEN returned[i].value = 0 /\ TouchesOf(returned[i].table) = {}
        ELSE returned[i].value = RowsIn(pg, returned[i].table)

(* ============ create_database_adapter and verify_migration ============= *)
(* ==================== called on their own inputs ======================= *)
\* main is not running.
MainIdle ==
    /\ environ = [POSTGRES_PASSWORD |-> "", path_exists |-> FALSE]
    /\ config = BaseConfig
    /\ sqlite_db = LegacyStore({}, [c \in 1..NumChats |-> {}])
    /\ pg = EmptyTarget /\ previous = EmptyTarget
    /\ pc = "idle" /\ run = 1 /\ faults = 0
    /\ AtEntry

S_SQLITE == <<"S", "Q", "L", "i", "t", "e">>
S_SQLite_Alchemy == <<"S", "Q", "L", "i", "t", "e", "-", "A", "l", "c", "h", "e", "m", "y">>
S_Postgres_Alchemy == <<"P", "o", "s", "t", "g", "r", "e", "s", "-", "A", "L", "C", "H", "E", "M", "Y">>
S_invalid == <<"i", "n", "v", "a", "l", "i", "d">>
S_MySQL == <<"M", "y", "S", "Q", "L">>

DbTypeInputs ==
    {S_sqlite, S_SQLITE, S_sqlite_alchemy, S_SQLite_Alchemy, S_postgres_alchemy,
     S_Postgres_Alchemy, S_invalid, S_MySQL, <<>>}

\* The attribute left unset, or set to one of the values.
Optional(name, values) == {<<>>} \cup {[n \in {name} |-> v] : v \in values}

FactoryConfigs ==
    {BaseConfig @@ t @@ p @@ s :
        t \in Optional("db_type", DbTypeInputs),
        p \in Optional("postgres_password", {"", "secret"}),
        s \in Optional("postgres_pool_size", {10})}

InitFactory ==
    /\ MainIdle
    /\ f_config \in FactoryConfigs /\ f_result = NoCall
    /\ v_sqlite_stats = [chats |-> 0, messages |-> 0] /\ v_pg_stats = <<>>
    /\ v_result = NotRun
    /\ OthersIdle

\* A call create_database_adapter(config).
FactoryCall ==
    /\ f_result = NoCall
    /\ f_result' = <<create_database_adapter(f_config)>>
    /\ UNCHANGED <<mainVars, f_config, v_sqlite_stats, v_pg_stats, v_result, otherVars>>

NextFactory == FactoryCall

SpecFactory == InitFactory /\ [][NextFactory]_vars

\* The dictionaries get_stats may hand to the comparison.
StatsDicts == UNION {[K -> 0..MaxCount] : K \in SUBSET {"chats", "messages", "users"}}

InitVerify ==
    /\ MainIdle
    /\ f_config = BaseConfig /\ f_result = NoCall
    /\ v_sqlite_stats \in [chats : 0..MaxCount, messages : 0..MaxCount]
    /\ v_pg_stats \in StatsDicts
    /\ v_result = NotRun
    /\ OthersIdle

\* The comparison of verify_migration, lines 257-274, on the two dictionaries.
VerifyCall ==
    /\ v_result = NotRun
    /\ v_result' = <<verify_migration(v_sqlite_stats, v_pg_stats)>>
    /\ UNCHANGED <<mainVars, f_config, f_result, v_sqlite_stats, v_pg_stats, otherVars>>

NextVerify == VerifyCall

SpecVerify == InitVerify /\ [][NextVerify]_vars

\* C4: verify_migration returns success exactly when the legacy chat count
\* equals the target's chats value and the legacy message count equals the
\* target's messages value, a key missing from the target's stats counting
\* as 0; both entities are compared, and each mismatching one is reported,
\* whether or not the first one mismatched.
C4_VerifyIffCountsAgree ==
    v_result # NotRun =>
        LET target(key) == IF key \in DOMAIN v_pg_stats THEN v_pg_stats[key] ELSE 0
            chatsAgree == v_sqlite_stats.chats = target("chats")
            messagesAgree == v_sqlite_stats.messages = target("messages")
        IN  /\ v_result[1].success <=> (chatsAgree /\ messagesAgree)
            /\ v_result[1].compared = <<"chats", "messages">>
            /\ ("chats" \in v_result[1].mismatched) <=> ~chatsAgree
            /\ ("messages" \in v_result[1].mismatched) <=> ~messagesAgree

C4_Witness ==
    /\ v_result # NotRun
    /\ "messages" \notin DOMAIN v_pg_stats /\ "chats" \in DOMAIN v_pg_stats
    /\ v_sqlite_stats.messages > 0
    /\ v_sqlite_stats.chats # v_pg_stats["chats"]
    /\ v_result[1].mismatched = {"chats", "messages"}

C10_PasswordCheckedFirst ==
    f_result # NoCall =>
        LET r == f_result[1]
            value == Lower(IF "db_type" \in DOMAIN f_config THEN f_config["db_type"]
                           ELSE S_sqlite)
            password == IF "postgres_password" \in DOMAIN f_config
                        THEN f_config["postgres_password"] ELSE ""
        IN  (value = S_postgres_alchemy /\ password = "") =>
                /\ r.raised /\ r.error = "ValueError"
                /\ r.constructed = {} /\ r.adapter = "none"

C10_Witness ==
    /\ f_result # NoCall
    /\ "db_type" \in DOMAIN f_config /\ f_config["db_type"] = S_Postgres_Alchemy
    /\ "postgres_password" \notin DOMAIN f_config
    /\ f_result[1].raised /\ f_result[1].constructed = {}

(* ================= the namespace of the tables ========================= *)
MaxSets == 3

InitSchema ==
    /\ MainIdle
    /\ f_config = BaseConfig /\ f_result = NoCall
    /\ v_sqlite_stats = [chats |-> 0, messages |-> 0] /\ v_pg_stats = <<>>
    /\ v_result = NotRun
    /\ OthersIdle

\* schema.set_schema_name(schema), lines 11-14.
SetSchemaName ==
    /\ creating \in {0, Len(Models(None))}
    /\ set_calls < MaxSets
    /\ \E schema \in SchemaNames : schema_name' = schema
    /\ set_calls' = set_calls + 1
    /\ UNCHANGED <<mainVars, f_config, f_result, v_sqlite_stats, v_pg_stats, v_result,
                   adapterVars, pageVars,
                   models_loaded, schema_at_import, table_schema, creating,
                   schema_at_create, created>>

\* schema.get_schema_name(), lines 16-18.
get_schema_name == schema_name

\* The first import of db_adapters.models: the seven class bodies run, each
\* reading get_schema_name() once.
ImportModels ==
    /\ ~models_loaded
    /\ models_loaded' = TRUE
    /\ schema_at_import' = get_schema_name
    /\ table_schema' = TableSchemas(get_schema_name)
    /\ UNCHANGED <<mainVars, f_config, f_result, v_sqlite_stats, v_pg_stats, v_result,
                   adapterVars, pageVars,
                   schema_name, set_calls, creating, schema_at_create, created>>

\* initialize_schema: the tables of Base.metadata are created one after the
\* other, each under the schema its Table carries, unless it exists already.
CreateTable ==
    /\ models_loaded
    /\ creating < Len(Models(None))
    /\ LET t == Models(None)[creating + 1].tablename
           namespace == IF table_schema[t] = None THEN DefaultNamespace ELSE table_schema[t]
       IN  created' = [created EXCEPT ![t] = IF @ = Absent THEN namespace ELSE @]
    /\ creating' = creating + 1
    /\ schema_at_create' = get_schema_name
    /\ UNCHANGED <<mainVars, f_config, f_result, v_sqlite_stats, v_pg_stats, v_result,
                   adapterVars, pageVars,
                   schema_name, set_calls, models_loaded, schema_at_import, table_schema>>

NextSchema ==
    \/ SetSchemaName
    \/ ImportModels
    \/ CreateTable

SpecSchema == InitSchema /\ [][NextSchema]_vars

\* The tables initialize_schema has handled so far.
TablesHandled == {Models(None)[i].tablename : i \in 1..creating}

\* The namespace a deployment configured when the models were defined.
ConfiguredNamespace ==
    IF schema_at_import = None THEN DefaultNamespace ELSE schema_at_import

C21_NamespaceFollowsLastSet ==
    (creating > 0 /\ schema_at_create # None) =>
        \A t \in TablesHandled : created[t] = schema_at_create

(* ================= the adapter contract, call by call ================== *)
MaxCalls == 2

\* The chats and message ids the calls are made with.
AdapterChats == {1, 2}
AdapterMessageIds == {1, 2}

\* Chat records as ingestion supplies them.
ChatRecords ==
    {[id |-> c, type |-> "private", title |-> t] : c \in AdapterChats, t \in {"old", "new"}}

AdapterMessages == {MessageRow(m, c) : m \in AdapterMessageIds, c \in AdapterChats}

\* Batches of one or two different messages.
Batches ==
    {<<m>> : m \in AdapterMessages} \cup
    {p \in AdapterMessages \X AdapterMessages :
        p[1].chat_id < p[2].chat_id \/ (p[1].chat_id = p[2].chat_id /\ p[1].id < p[2].id)}

\* What a point lookup returns when there is no such row (None).
Missing == [missing |-> TRUE]

HasChat(target, chat_id) == \E r \in target.chats : r.id = chat_id

\* get_chat(chat_id): the chat, or None.
get_chat(target, chat_id) ==
    IF HasChat(target, chat_id) THEN CHOOSE r \in target.chats : r.id = chat_id ELSE Missing

HasSyncStatus(target, chat_id) == \E r \in target.sync_status : r.chat_id = chat_id

\* The last_message_id of whichever sync status row the store holds.
AnySyncedMessageId(target, chat_id) ==
    IF target.sync_status = {} THEN 0
    ELSE (CHOOSE r \in target.sync_status : \A q \in target.sync_status : q.chat_id <= r.chat_id).last_message_id

\* get_last_synced_message_id(chat_id): the chat's SyncStatus.last_message_id,
\* 0 when the chat has no sync status.
get_last_synced_message_id(target, chat_id) ==
    IF HasSyncStatus(target, chat_id)
    THEN (CHOOSE r \in target.sync_status : r.chat_id = chat_id).last_message_id
    ELSE 0

\* The relationships of Chat and the tables behind them, with whether they
\* are declared cascade="all, delete-orphan".
ChatRelationships ==
    {[name |-> "messages", table |-> "messages", cascade |-> TRUE],
     [name |-> "media_files", table |-> "media", cascade |-> TRUE],
     [name |-> "sync_status", table |-> "sync_status", cascade |-> FALSE]}

Cascades(t) == \E r \in ChatRelationships : r.table = t /\ r.cascade

\* The rows a delete of the chat takes away: the chat, the rows of the
\* cascading relationships and, through Message.reactions, the reactions of
\* its messages.
DeleteRows(target, chat_id) ==
    LET Kept(t) ==
            IF Cascades(t) THEN {r \in target[t] : r.chat_id # chat_id} ELSE target[t]
        Stays(r) == ~\E m \in target.messages : m.chat_id = chat_id /\ m.id = r.message_id
    IN  [target EXCEPT !.chats = {r \in @ : r.id # chat_id},
                   !.messages = Kept("messages"),
                   !.media = Kept("media"),
                   !.sync_status = Kept("sync_status"),
                   !.reactions = SelectSeq(@, Stays)]

\* A call that returned.
Returned(store, result) == [store |-> store, raised |-> FALSE, result |-> result]
\* A call that raised: its transaction is rolled back.
Raised(store) == [store |-> store, raised |-> TRUE, result |-> FALSE]

\* What becomes of a row that still refers to the deleted chat through a
\* relationship without cascade: it stays behind (foreign keys not
\* enforced), or it makes the delete fail (foreign keys enforced).
ReferenceOutcomes == {"stays", "fails"}

\* delete_chat(chat_id): True if deleted, False if not found.
delete_chat(target, chat_id, reference) ==
    IF ~HasChat(target, chat_id) THEN Returned(target, FALSE)
    ELSE IF ~Cascades("sync_status") /\ HasSyncStatus(target, chat_id) /\ reference = "fails"
    THEN Raised(target)
    ELSE Returned(DeleteRows(target, chat_id), TRUE)

\* The first row of the batch at which the insert fails: the row the store
\* fails at (fail_at, 0 for no such failure) or the first row that violates
\* the primary key of the messages table; 0 if every row goes in.
FirstFailure(target, messages, fail_at) ==
    LET fails(k) == k = fail_at \/ PrimaryKeyViolation(target, SubSeq(messages, 1, k))
    IN  IF \E k \in DOMAIN messages : fails(k)
        THEN CHOOSE k \in DOMAIN messages :
                fails(k) /\ \A j \in DOMAIN messages : fails(j) => k <= j
        ELSE 0

\* The batch insert without a transaction around it: the rows before the
\* failing one stay in the store.
InsertMessagesKeepingPrefix(target, messages, fail_at) ==
    LET k == FirstFailure(target, messages, fail_at)
    IN  IF k = 0 THEN Returned(insert_messages(target, messages), TRUE)
        ELSE Raised(insert_messages(target, SubSeq(messages, 1, k - 1)))

\* insert_messages(messages) as one transaction: every row is stored, or the
\* call raises and none is.
InsertMessagesTransaction(target, messages, fail_at) ==
    LET k == FirstFailure(target, messages, fail_at)
    IN  IF k = 0 THEN Returned(insert_messages(target, messages), TRUE)
        ELSE Raised(target)

NeverSynced == -1

\* A store as ingestion leaves it: the chats, and for each chat of synced
\* one message (with the chat's number as its id), one media file and the
\* sync status; the user is shared.
Ingested(chats, synced) ==
    [chats |-> {[id |-> c, type |-> "private", title |-> "old"] : c \in chats},
     messages |-> {MessageRow(c, c) : c \in synced},
     users |-> {UserRow(1)},
     media |-> {MediaRow(c) : c \in synced},
     reactions |-> <<>>,
     sync_status |-> {SyncRow(c, {c}) : c \in synced},
     metadata |-> {}]

InitAdapter ==
    /\ MainIdle
    /\ f_config = BaseConfig /\ f_result = NoCall
    /\ v_sqlite_stats = [chats |-> 0, messages |-> 0] /\ v_pg_stats = <<>>
    /\ v_result = NotRun
    /\ SchemaIdle /\ PagesIdle
    /\ \E chats \in SUBSET AdapterChats : \E synced \in SUBSET chats :
          /\ a_store = Ingested(chats, synced)
          /\ a_synced = [c \in AdapterChats |-> IF c \in synced THEN c ELSE NeverSynced]
          /\ a_upserted = chats
    /\ a_before = a_store
    /\ a_last = NoAdapterCall
    /\ a_calls = 0

\* One call of the adapter: its arguments, its outcome, the store it leaves.
AdapterCall(op, chat_id, rows, fault, outcome) ==
    /\ a_calls < MaxCalls
    /\ a_calls' = a_calls + 1
    /\ a_before' = a_store
    /\ a_store' = outcome.store
    /\ a_last' = [op |-> op, chat_id |-> chat_id, rows |-> rows, fault |-> fault,
                  raised |-> outcome.raised, result |-> outcome.result,
                  again |-> a_last.op = op /\ a_last.chat_id = chat_id /\ a_last.rows = rows
                            /\ a_last.fault = 0,
                  first_raised |-> a_last.raised]
    /\ UNCHANGED <<mainVars, f_config, f_result, v_sqlite_stats, v_pg_stats, v_result,
                   schemaVars, pageVars>>

CallUpsertChat ==
    \E r \in ChatRecords :
        /\ AdapterCall("upsert_chat", r.id, <<r>>, 0, Returned(upsert_chat(a_store, r), TRUE))
        /\ a_upserted' = a_upserted \cup {r.id}
        /\ UNCHANGED a_synced

CallUpsertUser ==
    /\ AdapterCall("upsert_user", 0, <<UserRow(1)>>, 0,
                   Returned(upsert_user(a_store, UserRow(1)), TRUE))
    /\ UNCHANGED <<a_synced, a_upserted>>

CallUpsertMedia ==
    \E c \in AdapterChats :
        /\ AdapterCall("upsert_media", c, <<MediaRow(c)>>, 0,
                       Returned(upsert_media(a_store, MediaRow(c)), TRUE))
        /\ UNCHANGED <<a_synced, a_upserted>>

CallInsertMessages ==
    \E messages \in Batches : \E fail_at \in 0..Len(messages) :
        /\ AdapterCall("insert_messages", 0, messages, fail_at,
                       InsertMessagesTransaction(a_store, messages, fail_at))
        /\ UNCHANGED <<a_synced, a_upserted>>

CallUpdateSyncStatus ==
    \E c \in AdapterChats : \E last_message_id \in AdapterMessageIds :
        /\ AdapterCall("update_sync_status", c,
                       <<[chat_id |-> c, last_message_id |-> last_message_id,
                          message_count |-> last_message_id]>>, 0,
                       Returned(update_sync_status(a_store, c, last_message_id,
                                                   last_message_id), TRUE))
        /\ a_synced' = [a_synced EXCEPT ![c] = last_message_id]
        /\ UNCHANGED a_upserted

CallDeleteChat ==
    \E c \in AdapterChats : \E reference \in ReferenceOutcomes :
        /\ AdapterCall("delete_chat", c, <<>>, 0, delete_chat(a_store, c, reference))
        /\ UNCHANGED <<a_synced, a_upserted>>

NextAdapter ==
    \/ CallUpsertChat
    \/ CallUpsertUser
    \/ CallUpsertMedia
    \/ CallInsertMessages
    \/ CallUpdateSyncStatus
    \/ CallDeleteChat

SpecAdapter == InitAdapter /\ [][NextAdapter]_vars

\* The rows of the four per-chat tables that belong to other chats than c.
RowsOfOthers(target, c) ==
    [chats |-> {r \in target.chats : r.id # c},
     messages |-> {r \in target.messages : r.chat_id # c},
     media |-> {r \in target.media : r.chat_id # c},
     sync_status |-> {r \in target.sync_status : r.chat_id # c}]

\* C12 (as claimed): delete_chat(c) on an existing chat returns true and
\* leaves no chat, message, media row or sync status row of c, while the
\* users and the rows of the other chats stay as they were; on a chat that
\* does not exist it returns false and changes nothing.
C12_DeleteCascades ==
    a_last.op = "delete_chat" =>
        LET c == a_last.chat_id
        IN  IF HasChat(a_before, c)
            THEN /\ ~a_last.raised /\ a_last.result
                 /\ ~HasChat(a_store, c)
                 /\ \A t \in {"messages", "media", "sync_status"} :
                        \A r \in a_store[t] : r.chat_id # c
                 /\ a_store.users = a_before.users
                 /\ RowsOfOthers(a_store, c) = RowsOfOthers(a_before, c)
            ELSE ~a_last.raised /\ ~a_last.result /\ a_store = a_before

\* C13 (as claimed): the stored last_message_id of a chat never decreases
\* from the state before a call to the state after it.
C13_SyncNeverDecreases ==
    \A c \in AdapterChats :
        (HasSyncStatus(a_before, c) /\ HasSyncStatus(a_store, c)) =>
            get_last_synced_message_id(a_store, c) >= get_last_synced_message_id(a_before, c)

\* C14 (as claimed): insert_messages called with a batch and called again
\* with the same batch raises in neither call, and the second call leaves
\* the message count of every chat as the first call left it.
C14_ResubmissionIdempotent ==
    (a_last.op = "insert_messages" /\ a_last.again /\ a_last.fault = 0) =>
        /\ ~a_last.first_raised /\ ~a_last.raised
        /\ \A c \in AdapterChats :
              get_message_count(a_store, c) = get_message_count(a_before, c)

\* C15: after upsert_chat(r), get_chat(r.id) returns a record that agrees
\* with r on every field of r, whether or not the chat existed before, and
\* the store holds exactly one chat with that id; get_chat of an id that was
\* never upserted returns None.
C15_UpsertThenGet ==
    /\ a_last.op = "upsert_chat" =>
          LET r == a_last.rows[1]
              got == get_chat(a_store, r.id)
          IN  /\ ~a_last.raised
              /\ got # Missing
              /\ DOMAIN r \subseteq DOMAIN got
              /\ \A k \in DOMAIN r : got[k] = r[k]
              /\ Cardinality({x \in a_store.chats : x.id = r.id}) = 1
    /\ \A c \in AdapterChats : c \notin a_upserted => get_chat(a_store, c) = Missing

C15_Witness ==
    /\ a_last.op = "upsert_chat"
    /\ HasChat(a_before, a_last.chat_id)
    /\ get_chat(a_before, a_last.chat_id).title = "old"
    /\ get_chat(a_store, a_last.chat_id).title = "new"
    /\ \E c \in AdapterChats : c \notin a_upserted

\* C16: get_last_synced_message_id(c) is 0 when the store holds no sync
\* status of c, and otherwise the last_message_id of the latest
\* update_sync_status call made for c, whatever was written for other chats
\* or written for c before.
C16_LastSynced ==
    \A c \in AdapterChats :
        get_last_synced_message_id(a_store, c) =
            IF HasSyncStatus(a_store, c) THEN a_synced[c] ELSE 0

C16_Witness ==
    /\ a_last.op = "update_sync_status" /\ a_last.chat_id = 1
    /\ get_last_synced_message_id(a_before, 1) = 2
    /\ get_last_synced_message_id(a_store, 1) = 1
    /\ get_last_synced_message_id(a_store, 2) = 2

SamePair(r, q) == r.id = q.id /\ r.chat_id = q.chat_id

\* C17 (as claimed): the store holds at most one message per pair
\* (id, chat_id), and a batch insert that the store does not fail stores
\* every message of the batch and keeps every stored message of another
\* pair, also when the same id is in use in another chat.
C17_KeyedByPair ==
    /\ \A r, q \in a_store.messages : SamePair(r, q) => r = q
    /\ (a_last.op = "insert_messages" /\ a_last.fault = 0) =>
          /\ ~a_last.raised
          /\ Range(a_last.rows) \subseteq a_store.messages
          /\ \A r \in a_before.messages :
                (\A q \in Range(a_last.rows) : ~SamePair(r, q)) => r \in a_store.messages

\* C18: a write call that raises leaves the store as it was before the
\* call; in particular a batch insert that fails at any of its rows stores
\* no message of the batch, and one that returns has stored all of them.
C18_BatchAtomic ==
    /\ a_last.raised => a_store = a_before
    /\ (a_last.op = "insert_messages" /\ ~a_last.raised) =>
          Range(a_last.rows) \subseteq a_store.messages

C18_Witness ==
    /\ a_last.op = "insert_messages" /\ Len(a_last.rows) = 2 /\ a_last.fault = 2
    /\ a_last.raised
    /\ a_last.rows[1] \notin a_before.messages
    /\ a_store = a_before

(* ================== _get_messages, page by page ======================== *)
MaxPages == 2

\* The chats of the legacy store.
PageChats == {1, 2}

\* The numbers of messages a chat may hold: around each multiple of the
\* page size.
PageCounts ==
    {n \in {k * batch_size + d : k \in 0..MaxPages, d \in {-1, 0, 1}} : n >= 0}

\* Len(sqlite_db.get_messages(chat_id, limit, offset)) for a chat of n
\* messages: the rows offset+1 .. offset+limit of the chat, as far as they exist.
PageLength(n, limit, offset) ==
    IF offset >= n THEN 0 ELSE IF offset + limit <= n THEN limit ELSE n - offset

\* The loop left after every page that is not longer than the page size.
PageIsLastOrFull(length) == length <= batch_size

\* if len(messages) < batch_size: break
PageIsLast(length) == length < batch_size

InitPages ==
    /\ MainIdle
    /\ f_config = BaseConfig /\ f_result = NoCall
    /\ v_sqlite_stats = [chats |-> 0, messages |-> 0] /\ v_pg_stats = <<>>
    /\ v_result = NotRun
    /\ SchemaIdle /\ AdapterIdle
    /\ p_count \in [PageChats -> PageCounts]
    /\ p_chats = <<>> /\ p_chat = 1 /\ p_offset = 0
    /\ p_reads = <<>> /\ p_all = <<>> /\ p_pc = "start"

\* chats = self.sqlite_db.get_all_chats(): the chats that have messages.
GetAllChats ==
    /\ p_pc = "start"
    /\ p_chats' = SortById({[id |-> c] : c \in {d \in PageChats : p_count[d] > 0}})
    /\ p_chat' = 1 /\ p_offset' = 0
    /\ p_pc' = "loop"
    /\ UNCHANGED <<mainVars, f_config, f_result, v_sqlite_stats, v_pg_stats, v_result,
                   schemaVars, adapterVars, p_count, p_reads, p_all>>

\* One turn of the while loop: a page is read; an empty page ends the
\* chat, any other page is appended, the offset advances, and a short page
\* ends the chat.
ReadPage ==
    /\ p_pc = "loop" /\ p_chat <= Len(p_chats)
    /\ LET chat_id == p_chats[p_chat].id
           length == PageLength(p_count[chat_id], batch_size, p_offset)
       IN  /\ p_reads' = Append(p_reads, [chat_id |-> chat_id, limit |-> batch_size,
                                           offset |-> p_offset, rows |-> length])
           /\ IF length = 0
              THEN /\ p_chat' = p_chat + 1 /\ p_offset' = 0
                   /\ UNCHANGED p_all
              ELSE /\ p_all' = Append(p_all, [chat_id |-> chat_id, first |-> p_offset + 1,
                                              last |-> p_offset + length])
                   /\ IF PageIsLast(length)
                      THEN p_chat' = p_chat + 1 /\ p_offset' = 0
                      ELSE p_chat' = p_chat /\ p_offset' = p_offset + batch_size
    /\ UNCHANGED <<mainVars, f_config, f_result, v_sqlite_stats, v_pg_stats, v_result,
                   schemaVars, adapterVars, p_count, p_chats, p_pc>>

\* return all_messages
ReturnAllMessages ==
    /\ p_pc = "loop" /\ p_chat > Len(p_chats)
    /\ p_pc' = "done"
    /\ UNCHANGED <<mainVars, f_config, f_result, v_sqlite_stats, v_pg_stats, v_result,
                   schemaVars, adapterVars, p_count, p_chats, p_chat, p_offset, p_reads,
                   p_all>>

NextPages ==
    \/ GetAllChats
    \/ ReadPage
    \/ ReturnAllMessages

\* The call runs on: a step that can be taken is taken.
SpecPages == InitPages /\ [][NextPages]_vars /\ WF_vars(NextPages)

\* The reads of a chat, in the order they were made.
ReadsOf(c) == SelectSeq(p_reads, LAMBDA r : r.chat_id = c)

\* How often all_messages holds message number j of chat c.
TimesCollected(c, j) ==
    Cardinality({i \in DOMAIN p_all :
        p_all[i].chat_id = c /\ p_all[i].first <= j /\ j <= p_all[i].last})

PagesSafe ==
    /\ \A c \in PageChats :
          LET reads == ReadsOf(c)
          IN  \A i \in DOMAIN reads :
                  /\ reads[i].limit = 1000
                  /\ reads[i].offset = (i - 1) * 1000
                  /\ reads[i].rows < 1000 => i = Len(reads)
    /\ p_pc = "done" =>
          /\ \A c \in PageChats :
                /\ \A j \in 1..p_count[c] : TimesCollected(c, j) = 1
                /\ p_count[c] > 0 => ReadsOf(c)[Len(ReadsOf(c))].rows < 1000
          /\ \A i \in DOMAIN p_all : p_all[i].last <= p_count[p_all[i].chat_id]

\* C20: each chat is read in pages of 1000 at the offsets 0, 1000, 2000,
\* ..., no page is read after the first one of fewer than 1000 rows, the
\* call returns, and what it returns holds every message of every chat
\* exactly once, also for a chat whose number of messages is a multiple of
\* 1000.
C20_PagesCompleteAndTerminate == []PagesSafe /\ <>(p_pc = "done")

C20_Witness ==
    /\ p_pc = "done"
    /\ \E c \in PageChats :
          /\ p_count[c] = 2 * batch_size
          /\ Len(ReadsOf(c)) = 3 /\ ReadsOf(c)[3].rows = 0
          /\ TimesCollected(c, batch_size) = 1 /\ TimesCollected(c, batch_size + 1) = 1
    /\ \E c \in PageChats : p_count[c] = batch_size + 1 /\ Len(ReadsOf(c)) = 2

====
